---- MODULE Spec2Model ----
(***************************************************************************)
(* hugo-multiversion (src/main.go): resolve a version -> branch map from   *)
(* the --branches tokens and --latest-branch, then for every version clone *)
(* the branch into a temporary workspace and copy its content directory    *)
(* into <output-dir>/<version>.                                            *)
(*                                                                         *)
(* Strings are sequences of one-character strings, so that strings.Split,  *)
(* strings.Join and filepath.Join/Clean are computed, not assumed.         *)
(***************************************************************************)
EXTENDS Integers, Sequences, FiniteSets, TLC

VARIABLES
    branches,      \* --branches: the list of tokens (main.go:29,40)
    latestBranch,  \* --latest-branch (main.go:28,39)
    debug,         \* --debug (main.go:30,41)
    umask,         \* the process umask, applied by the OS to os.MkdirAll / os.Create
    pc,            \* position of the process
    parsed,        \* result of parseBranchesFlag(branches) (main.go:125)
    versionMap,    \* run()'s versionMap (main.go:125-128)
    todo,          \* versions the range loop has not visited yet (main.go:129)
    cur,           \* version fetched and about to be copied, or None
    tmp,           \* the temporary workspace: [made, exists, clones]
    out,           \* the filesystem below the working directory (output tree)
    before,        \* the filesystem as it was when the operation began
    srcTree,       \* copyDir's source tree (copy specification)
    events,        \* history: the fetch and copy calls made, with their results
    exit           \* process exit status, meaningful once pc = "exited"

vars == <<branches, latestBranch, debug, umask, pc, parsed, versionMap, todo,
          cur, tmp, out, before, srcTree, events, exit>>

None == "none"

----------------------------------------------------------------------------
(* Strings *)

\* index of the first occurrence of character c in s, 0 when there is none
IndexOf(s, c) ==
    IF \E i \in 1..Len(s) : s[i] = c
    THEN CHOOSE i \in 1..Len(s) : s[i] = c /\ \A j \in 1..(i-1) : s[j] # c
    ELSE 0

\* strings.Split(s, c) for a one-character separator c
RECURSIVE Split(_, _)
Split(s, c) ==
    LET i == IndexOf(s, c)
    IN  IF i = 0 THEN <<s>>
        ELSE <<SubSeq(s, 1, i-1)>> \o Split(SubSeq(s, i+1, Len(s)), c)

\* strings.Join(parts, sep)
RECURSIVE Join(_, _)
Join(parts, sep) ==
    IF Len(parts) = 0 THEN <<>>
    ELSE IF Len(parts) = 1 THEN parts[1]
    ELSE parts[1] \o sep \o Join(Tail(parts), sep)

\* m[k] = v on a Go map
MapSet(m, k, v) == [x \in (DOMAIN m) \cup {k} |-> IF x = k THEN v ELSE m[x]]

EmptyMap == [x \in {} |-> <<>>]

Latest == <<"l", "a", "t", "e", "s", "t">>

----------------------------------------------------------------------------
(* Version Resolver *)

\* the branch name of a token that holds an = sign (main.go:92, right-hand side)
BranchOfSplitWithEq(splitStr) == Join(Tail(splitStr), <<"=">>)
BranchOfSplit(splitStr) == Join(Tail(splitStr), <<>>)

\* one iteration of the loop of parseBranchesFlag (main.go:85-93)
ParseToken(outMap, b) ==
    LET splitStr == Split(b, "=")
    IN  IF Len(splitStr) = 1
        THEN MapSet(outMap, b, b)
        ELSE MapSet(outMap, splitStr[1], BranchOfSplit(splitStr))

RECURSIVE ParseFrom(_, _)
ParseFrom(outMap, bs) ==
    IF Len(bs) = 0 THEN outMap
    ELSE ParseFrom(ParseToken(outMap, Head(bs)), Tail(bs))

parseBranchesFlag(bs) == ParseFrom(EmptyMap, bs)

\* main.go:125-128 with the insertion skipped when the key is already there
ResolveKeepToken(bs, latest) ==
    LET m == parseBranchesFlag(bs)
    IN  IF latest # <<>> /\ Latest \notin DOMAIN m THEN MapSet(m, Latest, latest) ELSE m
\* the version map run() iterates over (main.go:125-128)
ResolveVersionMap(bs, latest) ==
    LET m == parseBranchesFlag(bs)
    IN  IF latest # <<>> THEN MapSet(m, Latest, latest) ELSE m

----------------------------------------------------------------------------
(* Paths: filepath.Join = join the non-empty arguments with "/" and Clean *)

\* Clean applied to a list of path elements: "" and "." vanish, ".." removes
\* the element before it, is dropped at the root of an absolute path and is
\* kept at the front of a relative one
RECURSIVE CleanFrom(_, _, _)
CleanFrom(abs, acc, els) ==
    IF Len(els) = 0 THEN acc
    ELSE LET e == Head(els)
             rest == Tail(els)
         IN  IF e = <<>> \/ e = <<".">> THEN CleanFrom(abs, acc, rest)
             ELSE IF e = <<".", ".">>
                  THEN IF Len(acc) > 0 /\ acc[Len(acc)] # <<".", ".">>
                       THEN CleanFrom(abs, SubSeq(acc, 1, Len(acc)-1), rest)
                       ELSE IF abs THEN CleanFrom(abs, acc, rest)
                            ELSE CleanFrom(abs, Append(acc, e), rest)
                  ELSE CleanFrom(abs, Append(acc, e), rest)

\* filepath.Join(base, s) for an already clean base path
JoinPath(base, s) ==
    [abs |-> base.abs, el |-> CleanFrom(base.abs, base.el, Split(s, "/"))]

IsPrefix(p, q) == Len(p) <= Len(q) /\ SubSeq(q, 1, Len(p)) = p

\* path p is path q or lies below it
Within(p, q) == p.abs = q.abs /\ IsPrefix(q.el, p.el)

\* the directory ioutil.TempDir returns (main.go:114): /tmp/hugo-multiversion-N
TmpDir == [abs |-> TRUE, el |-> <<<<"t", "m", "p">>, <<"h", "m", "v">>>>]
RepoElem == <<"r", "e", "p", "o">>
\* --output-dir, at its default "content" (main.go:38)
OutputDir == [abs |-> FALSE, el |-> <<<<"c", "o", "n", "t", "e", "n", "t">>>>]

\* cloneDir of fetchRepository (main.go:101)
CloneDir(version) ==
    JoinPath([abs |-> TRUE, el |-> Append(TmpDir.el, RepoElem)], version)

\* dst of run() with the version left out
DstDirNoVersion(version) == OutputDir
\* dst of run() (main.go:143)
DstDir(version) == JoinPath(OutputDir, version)

----------------------------------------------------------------------------
(* Filesystem: a function from paths (sequences of names) to nodes.  Mode  *)
(* bits are sets of permission bits; file contents are byte sequences.     *)

M755 == {"ur", "uw", "ux", "gr", "gx", "or", "ox"}
M775 == M755 \cup {"gw"}
M700 == {"ur", "uw", "ux"}
M644 == {"ur", "uw", "gr", "or"}
M600 == {"ur", "uw"}
M666 == {"ur", "uw", "gr", "gw", "or", "ow"}
M022 == {"gw", "ow"}

DirNode(mode) == [kind |-> "dir", mode |-> mode, bytes |-> <<>>]
FileNode(mode, bytes) == [kind |-> "file", mode |-> mode, bytes |-> bytes]

Put(fs, p, node) == [x \in (DOMAIN fs) \cup {p} |-> IF x = p THEN node ELSE fs[x]]

Front(p) == SubSeq(p, 1, Len(p) - 1)

Ok(fs) == [fs |-> fs, err |-> FALSE]
Failed(fs) == [fs |-> fs, err |-> TRUE]

\* os.MkdirAll(p, perm): nothing to do when p is a directory, an error when
\* p is a file; otherwise the missing parents are made first, then p, each
\* with perm less the umask.  Any mkdir may fail.
RECURSIVE MkdirAll(_, _, _, _)
MkdirAll(fs, p, perm, um) ==
    IF p \in DOMAIN fs
    THEN IF fs[p].kind = "dir" THEN {Ok(fs)} ELSE {Failed(fs)}
    ELSE IF Len(p) = 0 THEN {Failed(fs)}
    ELSE UNION { IF o.err THEN {o}
                 ELSE {Ok(Put(o.fs, p, DirNode(perm \ um))), Failed(o.fs)}
                 : o \in MkdirAll(fs, Front(p), perm, um) }

\* os.RemoveAll(p) on the modelled filesystem
RemoveTree(fs, p) == [x \in {y \in DOMAIN fs : ~IsPrefix(p, y)} |-> fs[x]]

\* os.Create(dst) (main.go:166): truncates an existing file and keeps its
\* mode, makes a new one with 0666 less the umask, fails on a directory
Create(fs, dst, um) ==
    IF dst \in DOMAIN fs
    THEN IF fs[dst].kind = "dir" THEN {Failed(fs)}
         ELSE {Ok(Put(fs, dst, FileNode(fs[dst].mode, <<>>))), Failed(fs)}
    ELSE {Ok(Put(fs, dst, FileNode(M666 \ um, <<>>))), Failed(fs)}

\* io.Copy(dstfd, srcfd) (main.go:171): all bytes written, or an error after
\* some prefix of them
IoCopy(fs, dst, bytes) ==
    {Ok(Put(fs, dst, FileNode(fs[dst].mode, bytes)))}
    \cup {Failed(Put(fs, dst, FileNode(fs[dst].mode, SubSeq(bytes, 1, k))))
          : k \in 0..Len(bytes)}

\* os.Stat(src) then os.Chmod(dst, srcinfo.Mode()) (main.go:174-177)
Chmod(fs, dst, mode) ==
    {Ok(Put(fs, dst, FileNode(mode, fs[dst].bytes))), Failed(fs)}

\* copyFile(src, dst) (main.go:155-178), src being the file node read
copyFile(srcNode, fs, dst, um) ==
    {Failed(fs)}                                        \* os.Open(src) fails
    \cup UNION { IF c.err THEN {c}
                 ELSE UNION { IF w.err THEN {w} ELSE Chmod(w.fs, dst, srcNode.mode)
                              : w \in IoCopy(c.fs, dst, srcNode.bytes) }
                 : c \in Create(fs, dst, um) }

\* the order of characters, for ioutil.ReadDir's sort by file name
CharOrder == <<".", "/", "=", "a", "b", "c", "d", "e", "f", "g", "h", "k", "l",
               "m", "n", "o", "p", "r", "s", "t", "v">>
CharRank(c) == CHOOSE i \in 1..Len(CharOrder) : CharOrder[i] = c

RECURSIVE NameLess(_, _)
NameLess(a, b) ==
    IF Len(b) = 0 THEN FALSE
    ELSE IF Len(a) = 0 THEN TRUE
    ELSE IF a[1] = b[1] THEN NameLess(Tail(a), Tail(b))
    ELSE CharRank(a[1]) < CharRank(b[1])

\* ioutil.ReadDir(dir) on a tree: the names directly below dir, sorted
ChildNames(tree, dir) ==
    {p[Len(p)] : p \in {q \in DOMAIN tree : Len(q) = Len(dir) + 1 /\ IsPrefix(dir, q)}}

RECURSIVE SortNames(_)
SortNames(S) ==
    IF S = {} THEN <<>>
    ELSE LET least == CHOOSE n \in S : \A o \in S \ {n} : NameLess(n, o)
         IN  <<least>> \o SortNames(S \ {least})

ReadDir(tree, dir) == SortNames(ChildNames(tree, dir))

\* main.go:190 with the destination emptied first
copyDirMkdirFresh(fs, dst, perm, um) == MkdirAll(RemoveTree(fs, dst), dst, perm, um)
\* main.go:190: os.MkdirAll(dst, srcinfo.Mode())
copyDirMkdir(fs, dst, perm, um) == MkdirAll(fs, dst, perm, um)

\* copyDir(src, dst) (main.go:181-212): src is the node at path sp of tree.
\* The result is the set of outcomes [fs, err] the call can have.
RECURSIVE copyDir(_, _, _, _, _)
RECURSIVE CopyEntries(_, _, _, _, _, _)
CopyEntries(tree, sp, names, fs, dst, um) ==
    IF Len(names) = 0 THEN {Ok(fs)}
    ELSE LET srcfp == Append(sp, Head(names))
             dstfp == Append(dst, Head(names))
             first == IF tree[srcfp].kind = "dir"
                      THEN copyDir(tree, srcfp, fs, dstfp, um)
                      ELSE copyFile(tree[srcfp], fs, dstfp, um)
         IN  UNION { IF o.err THEN {o}
                     ELSE CopyEntries(tree, sp, Tail(names), o.fs, dst, um)
                     : o \in first }

copyDir(tree, sp, fs, dst, um) ==
    IF sp \notin DOMAIN tree THEN {Failed(fs)}          \* os.Stat(src) fails
    ELSE {Failed(fs)}
         \cup UNION { IF m.err THEN {m}
                      ELSE IF tree[sp].kind # "dir" THEN {Failed(m.fs)}
                      ELSE {Failed(m.fs)}               \* ioutil.ReadDir fails
                           \cup CopyEntries(tree, sp, ReadDir(tree, sp), m.fs, dst, um)
                      : m \in copyDirMkdir(fs, dst, tree[sp].mode, um) }

----------------------------------------------------------------------------
(* Environment of a run: the remote repository and the disk *)

F == <<"f">>
D == <<"d">>
G == <<"g">>
StaleName == <<"s">>
VersA == <<"a">>

\* a directory tree, as copyDir reads it: relative path -> node
NoTree == [x \in {} |-> DirNode(M755)]
TreeM == (<<>> :> DirNode(M755)) @@ (<<F>> :> FileNode(M644, <<1>>))
         @@ (<<VersA>> :> FileNode(M644, <<2>>))
TreeN == (<<>> :> DirNode(M755)) @@ (<<D>> :> DirNode(M755))
         @@ (<<D, G>> :> FileNode(M600, <<2, 1>>))

\* the branches of the repository at --repo-url that git can clone
RepoBranches == {<<"m">>, <<"n">>, <<"k">>}
\* <repo-content-dir> of a branch: branch k has no such directory
BranchContent(b) ==
    IF b = <<"m">> THEN TreeM ELSE IF b = <<"n">> THEN TreeN ELSE NoTree

\* the disk below the working directory when the run starts: no output
\* directory, an output directory left by an earlier run (version a with a
\* stale file), or a file where the output directory should be
Cwd == (<<>> :> DirNode(M755))
OutStale == Cwd @@ (OutputDir.el :> DirNode(M755))
            @@ (Append(OutputDir.el, VersA) :> DirNode(M700))
            @@ (Append(Append(OutputDir.el, VersA), StaleName) :> FileNode(M644, <<1>>))
OutIsFile == Cwd @@ (OutputDir.el :> FileNode(M644, <<>>))
InitialDisks == {Cwd, OutStale, OutIsFile}

\* the tokens --branches is drawn from
MaxTokens == 2
Tok(version, branch) == version \o <<"=">> \o branch
RunTokens ==
    { Tok(VersA, <<"m">>), Tok(<<"b">>, <<"n">>), Tok(<<"a", "/", ".">>, <<"n">>),
      Tok(<<>>, <<"m">>), Tok(<<".", ".">>, <<"n">>), Tok(Latest, <<"n">>), <<"c">>, Tok(<<"b">>, <<"k">>) }
SeqsUpTo(S, n) == UNION {[1..k -> S] : k \in 0..n}
LatestChoices == {<<>>, <<"m">>}

\* the workspace: whether ioutil.TempDir made it, whether it is on disk, the
\* clone directories that hold a clone, and what cleanup did
NoWorkspace == [made |-> FALSE, exists |-> FALSE, clones |-> {}, cleanup |-> "none"]
NewWorkspace == [made |-> TRUE, exists |-> TRUE, clones |-> {}, cleanup |-> "none"]

Event(op, version, ok) == [op |-> op, version |-> version, ok |-> ok]

----------------------------------------------------------------------------
(* run() and main() *)

\* os.Exit in main (main.go:58-61) with the error of run() dropped
ExitStatusAlwaysZero(err) == 0
\* the exit status main gives for the result of run() (main.go:58-61)
ExitStatus(err) == IF err THEN 1 ELSE 0

\* run() without its deferred cleanup (main.go:118)
cleanupNotDeferred(dbg, t) == {t}
\* cleanup(log, tmpdir) (main.go:214-225): the states the workspace can be
\* left in.  os.RemoveAll removes what lies below tmpdir, or fails and is
\* only logged.
cleanup(dbg, t) ==
    IF dbg THEN {[t EXCEPT !.cleanup = "skipped"]}
    ELSE LET kept == {c \in t.clones : ~Within(c, TmpDir)}
         IN  {[t EXCEPT !.exists = FALSE, !.clones = kept, !.cleanup = "removed"],
              [t EXCEPT !.clones = kept, !.cleanup = "failed"],
              [t EXCEPT !.cleanup = "failed"]}

\* git clone -b branch repoURL cloneDir (main.go:102, 227-240) can succeed
\* only for a branch the repository has and a cloneDir that is not a
\* directory with something in it
CloneCanSucceed(t, cloneDir, branch) ==
    /\ branch \in RepoBranches
    /\ \A c \in t.clones : ~Within(c, cloneDir)
    /\ ~(Within(TmpDir, cloneDir) /\ cloneDir # TmpDir)

\* fetchRepository with the error of runCommand ignored
fetchRepositoryIgnoreErr(t, version, branch) ==
    LET cloneDir == CloneDir(version)
    IN  {[ok |-> TRUE, tmp |-> t]}
        \cup IF CloneCanSucceed(t, cloneDir, branch)
             THEN {[ok |-> TRUE, tmp |-> [t EXCEPT !.clones = @ \cup {cloneDir}]]}
             ELSE {}
\* fetchRepository (main.go:99-106): the outcomes [ok, tmp] of one call
fetchRepository(t, version, branch) ==
    LET cloneDir == CloneDir(version)
    IN  {[ok |-> FALSE, tmp |-> t]}
        \cup IF CloneCanSucceed(t, cloneDir, branch)
             THEN {[ok |-> TRUE, tmp |-> [t EXCEPT !.clones = @ \cup {cloneDir}]]}
             ELSE {}

\* the loop body logging an error and going on to the next version
OnErrorContinue == "loop"
\* where the process is after `return err` in the loop (main.go:136, 146):
\* run() has returned and main exits
OnError == "exited"

NothingToDo == latestBranch = <<>> /\ Len(branches) = 0

\* run() returns at main.go:109-112 and main exits with 0
RunNothingToDo ==
    /\ pc = "start" /\ NothingToDo
    /\ pc' = "exited" /\ exit' = ExitStatus(FALSE)
    /\ UNCHANGED <<branches, latestBranch, debug, umask, parsed, versionMap,
                   todo, cur, tmp, out, before, srcTree, events>>

\* ioutil.TempDir fails (main.go:114-117): no workspace, no cleanup deferred
RunTempDirFails ==
    /\ pc = "start" /\ ~NothingToDo
    /\ pc' = "exited" /\ exit' = ExitStatus(TRUE)
    /\ UNCHANGED <<branches, latestBranch, debug, umask, parsed, versionMap,
                   todo, cur, tmp, out, before, srcTree, events>>

\* main.go:114-128: workspace made, cleanup deferred, output directory
\* made, version map resolved; an error of os.MkdirAll ends the run
RunBegin ==
    /\ pc = "start" /\ ~NothingToDo
    /\ \E o \in MkdirAll(out, OutputDir.el, M755, umask) :
         LET made == NewWorkspace
         IN  /\ out' = o.fs
             /\ IF o.err
                THEN /\ tmp' \in cleanup(debug, made)
                     /\ pc' = "exited" /\ exit' = ExitStatus(TRUE)
                     /\ UNCHANGED <<parsed, versionMap, todo>>
                ELSE /\ tmp' = made
                     /\ parsed' = parseBranchesFlag(branches)
                     /\ versionMap' = ResolveVersionMap(branches, latestBranch)
                     /\ todo' = DOMAIN versionMap'
                     /\ pc' = "loop" /\ UNCHANGED exit
    /\ UNCHANGED <<branches, latestBranch, debug, umask, cur, before, srcTree, events>>

\* main.go:129-137: the range loop takes a version it has not visited (in
\* any order) and fetches it; a fetch error ends the run
RunFetch(v) ==
    /\ pc = "loop" /\ v \in todo
    /\ \E r \in fetchRepository(tmp, v, versionMap[v]) :
         /\ events' = Append(events, Event("fetch", v, r.ok))
         /\ IF r.ok
            THEN /\ tmp' = r.tmp /\ cur' = v /\ pc' = "copy"
                 /\ UNCHANGED exit
            ELSE /\ tmp' \in cleanup(debug, r.tmp)
                 /\ pc' = OnError /\ exit' = ExitStatus(TRUE)
                 /\ UNCHANGED cur
    /\ todo' = todo \ {v}
    /\ UNCHANGED <<branches, latestBranch, debug, umask, parsed, versionMap,
                   out, before, srcTree>>

\* main.go:142-147: copy the fetched content directory to <output-dir>/<version>
RunCopy ==
    /\ pc = "copy"
    /\ \E o \in copyDir(BranchContent(versionMap[cur]), <<>>, out, DstDir(cur).el, umask) :
         /\ out' = o.fs
         /\ events' = Append(events, Event("copy", cur, ~o.err))
         /\ IF o.err
            THEN /\ tmp' \in cleanup(debug, tmp)
                 /\ pc' = OnError /\ exit' = ExitStatus(TRUE)
            ELSE /\ pc' = "loop" /\ UNCHANGED <<tmp, exit>>
    /\ cur' = None
    /\ UNCHANGED <<branches, latestBranch, debug, umask, parsed, versionMap,
                   todo, before, srcTree>>

\* main.go:150-151: the loop is over, run() returns nil, main exits with 0
RunFinish ==
    /\ pc = "loop" /\ todo = {}
    /\ tmp' \in cleanup(debug, tmp)
    /\ pc' = "exited" /\ exit' = ExitStatus(FALSE)
    /\ UNCHANGED <<branches, latestBranch, debug, umask, parsed, versionMap,
                   todo, cur, out, before, srcTree, events>>

Init ==
    /\ branches \in SeqsUpTo(RunTokens, MaxTokens)
    /\ latestBranch \in LatestChoices
    /\ debug \in BOOLEAN
    /\ umask \in {{}, M022}
    /\ pc = "start"
    /\ parsed = EmptyMap /\ versionMap = EmptyMap
    /\ todo = {} /\ cur = None
    /\ tmp = NoWorkspace
    /\ out \in InitialDisks /\ before = out
    /\ srcTree = NoTree
    /\ events = <<>>
    /\ exit = 0

Next ==
    \/ RunNothingToDo
    \/ RunTempDirFails
    \/ RunBegin
    \/ \E v \in todo : RunFetch(v)
    \/ RunCopy
    \/ RunFinish

Spec == Init /\ [][Next]_vars

----------------------------------------------------------------------------
(* parseBranchesFlag on its own: every short token list *)

MaxTokenLen == 3
Alphabet == {"a", "="}
ParseTokens ==
    SeqsUpTo(Alphabet, MaxTokenLen)
    \cup { <<"a", "=", "b", "=", "c">>, <<"=", "a", "=", "b">>, <<"b">>,
           Latest, Tok(Latest, <<"b">>) }

InitParse ==
    /\ branches \in SeqsUpTo(ParseTokens, MaxTokens)
    /\ latestBranch \in LatestChoices
    /\ debug = FALSE
    /\ umask = M022
    /\ pc = "parse"
    /\ parsed = EmptyMap /\ versionMap = EmptyMap
    /\ todo = {} /\ cur = None
    /\ tmp = NoWorkspace
    /\ out = Cwd /\ before = Cwd
    /\ srcTree = NoTree
    /\ events = <<>>
    /\ exit = 0

\* main.go:125-128 applied to the flags
ParseCall ==
    /\ pc = "parse"
    /\ parsed' = parseBranchesFlag(branches)
    /\ versionMap' = ResolveVersionMap(branches, latestBranch)
    /\ pc' = "parsed"
    /\ UNCHANGED <<branches, latestBranch, debug, umask, todo, cur, tmp, out,
                   before, srcTree, events, exit>>

SpecParse == InitParse /\ [][ParseCall]_vars

----------------------------------------------------------------------------
(* copyDir on its own: source trees with a nested directory, copied to a   *)
(* destination that is absent or holds files and directories already       *)

CopyParent == <<<<"o">>>>
CopyDst == Append(CopyParent, <<"v">>)

SrcFileChoices ==
    { NoTree, <<F>> :> FileNode(M644, <<1>>), <<F>> :> FileNode(M600, <<2, 1>>) }
SrcDirChoices ==
    { NoTree,
      <<D>> :> DirNode(M755),
      (<<D>> :> DirNode(M700)) @@ (<<D, G>> :> FileNode(M644, <<1>>)),
      (<<D>> :> DirNode(M775)) @@ (<<D, G>> :> FileNode(M600, <<2>>)) }
SrcTrees ==
    {NoTree} \cup { (<<>> :> DirNode(rm)) @@ f @@ d :
                    rm \in {M755, M775}, f \in SrcFileChoices, d \in SrcDirChoices }

DstFileChoices ==
    { NoTree, <<F>> :> FileNode(M644, <<2>>),
      (<<F>> :> DirNode(M755)) @@ (<<F, StaleName>> :> FileNode(M644, <<2>>)) }
DstDirChoices ==
    { NoTree,
      <<D>> :> DirNode(M700),
      (<<D>> :> DirNode(M755)) @@ (<<D, G>> :> FileNode(M644, <<2>>))
         @@ (<<D, StaleName>> :> FileNode(M600, <<1>>)),
      <<D>> :> FileNode(M644, <<1>>) }
DstStaleChoices == { NoTree, <<StaleName>> :> FileNode(M644, <<1, 2>>) }
DstTrees ==
    { (<<>> :> DirNode(rm)) @@ f @@ d @@ st :
      rm \in {M755, M700}, f \in DstFileChoices, d \in DstDirChoices,
      st \in DstStaleChoices }

\* tree placed at path base
Placed(tree, base) ==
    [p \in {base \o q : q \in DOMAIN tree} |-> tree[SubSeq(p, Len(base) + 1, Len(p))]]

DstDisks ==
    {Cwd} \cup { Cwd @@ (CopyParent :> DirNode(M755)) @@ Placed(t, CopyDst) : t \in DstTrees }

InitCopy ==
    /\ srcTree \in SrcTrees
    /\ out \in DstDisks /\ before = out
    /\ umask \in {{}, M022}
    /\ pc = "copyDir"
    /\ branches = <<>> /\ latestBranch = <<>> /\ debug = FALSE
    /\ parsed = EmptyMap /\ versionMap = EmptyMap
    /\ todo = {} /\ cur = None
    /\ tmp = NoWorkspace
    /\ events = <<>>
    /\ exit = 0

\* one call copyDir(src, dst)
CopyCall ==
    /\ pc = "copyDir"
    /\ \E o \in copyDir(srcTree, <<>>, out, CopyDst, umask) :
         /\ out' = o.fs
         /\ pc' = IF o.err THEN "copyDir failed" ELSE "copyDir returned"
    /\ UNCHANGED <<branches, latestBranch, debug, umask, parsed, versionMap,
                   todo, cur, tmp, before, srcTree, events, exit>>

SpecCopy == InitCopy /\ [][CopyCall]_vars

----------------------------------------------------------------------------
(* Properties *)

FetchEvents(v) ==
    {i \in 1..Len(events) : events[i].op = "fetch" /\ events[i].version = v}
CopyEvents(v) ==
    {i \in 1..Len(events) : events[i].op = "copy" /\ events[i].version = v}

\* run() has built its version map (main.go:125-128 were reached)
MapResolved == pc \in {"loop", "copy"} \/ events # <<>>

\* the run ended on a failed fetch of version v
EndedOnFailedFetch(v) ==
    /\ pc = "exited" /\ events # <<>>
    /\ events[Len(events)] = Event("fetch", v, FALSE)

\* the path <output-dir>/<version> names, for --output-dir content
OutputSubdir(v) == CleanFrom(FALSE, <<<<"c", "o", "n", "t", "e", "n", "t">>>>, Split(v, "/"))

\* C1: when run() completes successfully, for every (version, branch) entry
\* of the version map the directory <output-dir>/<version> exists and holds
\* every file and subdirectory of the content directory of that entry's
\* own branch, at the same relative path.
C1_SuccessPopulatesEveryVersion ==
    (pc = "exited" /\ exit = 0) =>
        \A v \in DOMAIN versionMap :
            LET dst == OutputSubdir(v)
                tree == BranchContent(versionMap[v])
            IN  /\ dst \in DOMAIN out /\ out[dst].kind = "dir"
                /\ <<>> \in DOMAIN tree
                /\ \A p \in DOMAIN tree :
                      /\ (dst \o p) \in DOMAIN out
                      /\ out[dst \o p].kind = tree[p].kind

\* a successful run over two tokens and the latest branch, three versions
C1_Witness ==
    /\ pc = "exited" /\ exit = 0
    /\ Cardinality(DOMAIN versionMap) = 3
    /\ Latest \in DOMAIN versionMap
    /\ \A v \in DOMAIN versionMap : Append(OutputSubdir(v), F) \in DOMAIN out
                                    \/ Append(OutputSubdir(v), D) \in DOMAIN out

\* the version and the branch a token stands for, read off the token itself
TokenVersion(t) ==
    IF IndexOf(t, "=") = 0 THEN t ELSE SubSeq(t, 1, IndexOf(t, "=") - 1)
NotEq(c) == c # "="
TokenBranch(t) ==
    IF IndexOf(t, "=") = 0 THEN t
    ELSE SelectSeq(SubSeq(t, IndexOf(t, "=") + 1, Len(t)), NotEq)

\* C2: parseBranchesFlag maps a token without = to itself, a token with =
\* to (text before the first =) -> (text after it with every further =
\* removed); the map holds exactly the version names of the tokens, and of
\* two tokens with the same version name the later one's branch is kept.
C2_ParseBranchesFlag ==
    pc = "parsed" =>
        /\ DOMAIN parsed = {TokenVersion(branches[i]) : i \in 1..Len(branches)}
        /\ \A i \in 1..Len(branches) :
              (\A j \in (i+1)..Len(branches) :
                    TokenVersion(branches[j]) # TokenVersion(branches[i]))
              => parsed[TokenVersion(branches[i])] = TokenBranch(branches[i])

\* a=a then a=b=c: the later token wins and its branch is bc
C2_Witness ==
    /\ pc = "parsed" /\ Len(branches) = 2
    /\ branches[1] = <<"a", "=", "a">>
    /\ branches[2] = <<"a", "=", "b", "=", "c">>
    /\ parsed[<<"a">>] = <<"b", "c">>

\* C3: whenever --latest-branch is non-empty, the version map run() uses
\* maps "latest" to the --latest-branch value whatever the tokens are, and
\* every other entry is the one parseBranchesFlag gave.
C3_LatestAlwaysInserted ==
    (MapResolved /\ latestBranch # <<>>) =>
        /\ Latest \in DOMAIN versionMap
        /\ versionMap[Latest] = latestBranch
        /\ DOMAIN versionMap = DOMAIN parseBranchesFlag(branches) \cup {Latest}
        /\ \A k \in DOMAIN versionMap \ {Latest} :
              versionMap[k] = parseBranchesFlag(branches)[k]
        /\ \A i \in 1..Len(events) : events[i].version \in DOMAIN versionMap

\* a latest=n token overwritten by --latest-branch=m, next to another entry
C3_Witness ==
    /\ MapResolved /\ latestBranch = <<"m">>
    /\ \E i \in 1..Len(branches) : branches[i] = Tok(Latest, <<"n">>)
    /\ versionMap[Latest] = <<"m">>
    /\ Cardinality(DOMAIN versionMap) = 2
    /\ FetchEvents(Latest) # {}

\* the output directory of disk fs has a subdirectory named after version v
HasVersionSubdir(fs, v) ==
    LET d == DstDir(v).el
    IN  /\ d # OutputDir.el /\ IsPrefix(OutputDir.el, d)
        /\ d \in DOMAIN fs /\ fs[d].kind = "dir"

\* C4 as stated: if the fetch of a version fails, then at exit the output
\* directory has no subdirectory named after that version and the exit
\* status is 1.
C4_Original ==
    \A v \in DOMAIN versionMap :
        EndedOnFailedFetch(v) => (~HasVersionSubdir(out, v) /\ exit = 1)

\* C4 amended: if the fetch of a version fails, the run ends there with
\* exit status 1, having made no copy for that version and without writing
\* anything to the disk from the start of that fetch on: the output
\* directory has a subdirectory named after the version at exit only if it
\* had one when the fetch began.
C4_FailedFetchWritesNothing ==
    [][\A v \in todo :
          (events' = Append(events, Event("fetch", v, FALSE))) =>
              /\ out' = out
              /\ HasVersionSubdir(out', v) <=> HasVersionSubdir(out, v)
              /\ \A i \in 1..Len(events) : events[i] # Event("copy", v, TRUE)
              /\ pc' = "exited" /\ exit' = 1]_vars

\* a second version's fetch fails after the first was copied, on a fresh
\* disk: the first version has its subdirectory, the second has none
C4_Witness ==
    \E v \in DOMAIN versionMap :
        /\ EndedOnFailedFetch(v)
        /\ exit = 1
        /\ Len(events) = 3
        /\ before = Cwd
        /\ v # <<>>
        /\ HasVersionSubdir(out, events[1].version)
        /\ ~HasVersionSubdir(out, v)

\* C5 as stated: on every exit path of a run that created the workspace,
\* the workspace is gone at exit when --debug is false and in place when
\* --debug is true.
C5_Original ==
    (pc = "exited" /\ tmp.made) => (tmp.exists <=> debug)

\* C5 amended: on every exit path of a run that created the workspace,
\* cleanup has run by the time the process exits; with --debug it leaves the
\* workspace in place, without --debug it calls os.RemoveAll and the
\* workspace is gone unless that call failed.
C5_CleanupOnEveryExitPath ==
    (pc = "exited" /\ tmp.made) =>
        /\ debug => (tmp.cleanup = "skipped" /\ tmp.exists)
        /\ ~debug => tmp.cleanup \in {"removed", "failed"}
        /\ (~debug /\ tmp.cleanup = "removed") =>
              (~tmp.exists /\ \A c \in tmp.clones : ~Within(c, TmpDir))

\* a run that ended on a copy error with the workspace removed
C5_Witness ==
    /\ pc = "exited" /\ tmp.made /\ ~debug /\ ~tmp.exists
    /\ exit = 1
    /\ events # <<>> /\ events[Len(events)].op = "copy"

\* C6: when copyDir returns without error, every directory and file under
\* src has a directory or file at the same relative path under dst, every
\* file with the bytes and permission bits of its source, every directory
\* with the permission bits of its source, whatever dst held before.
C6_CopyReproducesTree ==
    pc = "copyDir returned" =>
        \A p \in DOMAIN srcTree :
            /\ (CopyDst \o p) \in DOMAIN out
            /\ out[CopyDst \o p].kind = srcTree[p].kind
            /\ out[CopyDst \o p].bytes = srcTree[p].bytes
            /\ out[CopyDst \o p].mode = srcTree[p].mode

\* path p of the disk is the destination of a path of the source tree
HasSource(p) ==
    /\ IsPrefix(CopyDst, p)
    /\ SubSeq(p, Len(CopyDst) + 1, Len(p)) \in DOMAIN srcTree

\* C7: copyDir changes only destination paths that have a path under src:
\* whatever was under dst before and has no such path is there afterwards
\* with the same bytes and permission bits, whether the copy succeeds or
\* fails, and nothing is deleted.
C7_CopyLeavesOthersAlone ==
    pc \in {"copyDir returned", "copyDir failed"} =>
        /\ DOMAIN before \subseteq DOMAIN out
        /\ \A p \in DOMAIN before : ~HasSource(p) => out[p] = before[p]

\* a copy that wrote into a destination holding stale files at two levels
C7_Witness ==
    /\ pc = "copyDir returned"
    /\ Append(CopyDst, StaleName) \in DOMAIN before
    /\ (CopyDst \o <<D, StaleName>>) \in DOMAIN before
    /\ (CopyDst \o <<D, G>>) \in DOMAIN out
    /\ out[CopyDst \o <<D, G>>] # before[CopyDst \o <<D, G>>]
    /\ Append(CopyDst, F) \notin DOMAIN before
    /\ Append(CopyDst, F) \in DOMAIN out

\* C8: the first fetch or copy error ends the run: a failed call is the
\* last call made, the process has then exited with status 1, and from
\* then on nothing under the output directory changes; no step of a run
\* removes a path from the disk.
C8_FirstErrorEndsRun ==
    /\ [](\A i \in 1..Len(events) :
             ~events[i].ok => (i = Len(events) /\ pc = "exited" /\ exit = 1))
    /\ [][/\ DOMAIN out \subseteq DOMAIN out'
          /\ pc = "exited" => (out' = out /\ events' = events)]_vars

\* a copy error after one version was fetched and copied, with a version
\* left unvisited and the first version's files still on disk
C8_Witness ==
    /\ pc = "exited" /\ exit = 1
    /\ Len(events) = 4
    /\ events[2].op = "copy" /\ events[2].ok
    /\ events[4].op = "copy" /\ ~events[4].ok
    /\ todo # {}
    /\ \E p \in DOMAIN out : IsPrefix(DstDir(events[2].version).el, p)
                             /\ out[p].kind = "file" /\ p \notin DOMAIN before

\* C9 as stated: in every run every version of the version map yields
\* exactly one fetch and exactly one copy.
C9_Original ==
    (pc = "exited" /\ MapResolved) =>
        \A v \in DOMAIN versionMap :
            Cardinality(FetchEvents(v)) = 1 /\ Cardinality(CopyEvents(v)) = 1

\* C9 amended: in every run every version yields at most one fetch and at
\* most one copy, a copy is made only of a version whose fetch succeeded
\* (its clone is in the workspace), and in a run that completes
\* successfully every version yields exactly one fetch and one copy.
C9_OneFetchOneCopy ==
    /\ \A v \in DOMAIN versionMap :
          /\ Cardinality(FetchEvents(v)) <= 1
          /\ Cardinality(CopyEvents(v)) <= 1
          /\ \A j \in CopyEvents(v) :
                j > 1 /\ events[j-1] = Event("fetch", v, TRUE)
          /\ (pc = "exited" /\ exit = 0) =>
                (Cardinality(FetchEvents(v)) = 1 /\ Cardinality(CopyEvents(v)) = 1)
    /\ pc = "copy" => (cur \in DOMAIN versionMap /\ CloneDir(cur) \in tmp.clones)
    /\ \A i \in 1..Len(events) : events[i].version \in DOMAIN versionMap

\* a successful run of three versions: three fetches, each followed by its copy
C9_Witness ==
    /\ pc = "exited" /\ exit = 0
    /\ Len(events) = 6
    /\ \A v \in DOMAIN versionMap : Cardinality(FetchEvents(v)) = 1

\* C10: no two distinct versions of the version map have clone directories
\* that are equal or nested in one another.
C10_CloneDirsDisjoint ==
    MapResolved =>
        \A v \in DOMAIN versionMap : \A w \in DOMAIN versionMap :
            v # w => ~Within(CloneDir(v), CloneDir(w))

====
